---- MODULE Spec2Model ----
(***************************************************************************)
(* Model of pkg/image/extract.go, func Extract: the reverse walk over the  *)
(* layers of an image that copies the wanted files into a tar.gz archive.  *)
(*                                                                         *)
(* Paths are sequences of one-character strings, so that filepath.Clean    *)
(* and strings.TrimPrefix are computed, not assumed.  A layer is the       *)
(* sequence of tar headers its stream decodes to.  Failures of the         *)
(* collaborators (img.Layers, os.Create, layer.Uncompressed,               *)
(* tarReader.Next, tw.WriteHeader, io.Copy) are choices made at the call.  *)
(***************************************************************************)
EXTENDS Integers, Sequences, FiniteSets, TLC

\* ------------------------------------------------------------------ bounds
MaxLayers == 2
MaxEntries == 3
MaxTargets == 2

\* ------------------------------------------------------------------ paths
Sep == "/"
Dot == "."

\* strings.TrimPrefix(s, "/"): drops ONE leading separator, if there is one.
TrimPrefix(s) ==
    IF Len(s) > 0 /\ s[1] = Sep THEN SubSeq(s, 2, Len(s)) ELSE s

\* The path elements of s: the maximal runs without a separator (empty runs
\* included), left to right.
RECURSIVE Elements(_, _)
Elements(s, cur) ==
    IF s = <<>> THEN <<cur>>
    ELSE IF Head(s) = Sep THEN <<cur>> \o Elements(Tail(s), <<>>)
    ELSE Elements(Tail(s), Append(cur, Head(s)))

\* Clean's element rules, applied left to right to the elements es, with out
\* the elements kept so far: "" and "." are dropped, ".." removes the element
\* before it, is dropped at the root, and is kept in front of a relative path.
RECURSIVE CleanElements(_, _, _)
CleanElements(es, out, rooted) ==
    IF es = <<>> THEN out
    ELSE LET e == Head(es)
             rest == Tail(es)
         IN  IF e = <<>> \/ e = <<Dot>> THEN CleanElements(rest, out, rooted)
             ELSE IF e = <<Dot, Dot>>
                  THEN IF Len(out) > 0 /\ out[Len(out)] # <<Dot, Dot>>
                       THEN CleanElements(rest, SubSeq(out, 1, Len(out) - 1), rooted)
                       ELSE IF rooted THEN CleanElements(rest, out, rooted)
                       ELSE CleanElements(rest, Append(out, e), rooted)
             ELSE CleanElements(rest, Append(out, e), rooted)

RECURSIVE Join(_)
Join(es) ==
    IF es = <<>> THEN <<>>
    ELSE IF Len(es) = 1 THEN es[1]
    ELSE es[1] \o <<Sep>> \o Join(Tail(es))

\* Mutant of Clean: the name is compared as the layer spells it.
CleanNothing(name) == name

\* filepath.Clean(name): the shortest equivalent path; "." for the empty one.
Clean(name) ==
    IF name = <<>> THEN <<Dot>>
    ELSE LET rooted == name[1] = Sep
             out == Join(CleanElements(Elements(name, <<>>), <<>>, rooted))
         IN  IF rooted THEN <<Sep>> \o out
             ELSE IF out = <<>> THEN <<Dot>> ELSE out

\* ------------------------------------------------------------------ inputs
TypeReg == "TypeReg"
TypeDir == "TypeDir"

\* Entry names as the tools that build layers write them.
Names == { <<Dot, Sep, "f">>, <<"g">> }

\* tar headers: a non-empty regular file under every name, and at one path an
\* empty regular file and a directory.
Headers ==
    { [Name |-> n, Typeflag |-> TypeReg, Size |-> 1] : n \in Names }
    \cup { [Name |-> <<Dot, Sep, "f">>, Typeflag |-> TypeReg, Size |-> 0],
           [Name |-> <<Dot, Sep, "f">>, Typeflag |-> TypeDir, Size |-> 0] }

\* platform.Files[k].From: one declared with the leading separator, one without.
Froms == { <<Sep, "f">>, <<"g">> }

SeqsUpTo(S, n) == UNION { [1..k -> S] : k \in 0..n }

\* The images of exactly n layers that hold at most budget headers in all.
RECURSIVE ImagesOf(_, _)
ImagesOf(n, budget) ==
    IF n = 0 THEN { <<>> }
    ELSE UNION { { <<c>> \o rest : rest \in ImagesOf(n - 1, budget - Len(c)) } :
                 c \in SeqsUpTo(Headers, budget) }

Images == UNION { ImagesOf(n, MaxEntries) : n \in 0..MaxLayers }
TargetLists == SeqsUpTo([From : Froms], MaxTargets)

NoHeader == [Name |-> <<>>, Typeflag |-> TypeReg, Size |-> 0]

\* ------------------------------------------------------------------ state
VARIABLES
    layers,            \* img.Layers(): layers[i+1] is layer i's tar headers
    files,             \* platform.Files
    pc,                \* where Extract is
    err,               \* the error Extract returns ("" for nil)
    fileLocation,      \* the list Extract returns (<<>> for nil)
    created,           \* os.Create(destinationName) has happened
    closed,            \* the sinks closed so far, in closing order
    processedTargets,  \* the set of target.From already matched
    foundLen,
    i,                 \* the layer index of the outer loop
    opened,            \* the layers whose Uncompressed() was called, in order
    readers,           \* the layer streams open now
    pos,               \* headers the tarReader of layer i has returned
    header,            \* the header under scan, Name cleaned
    t,                 \* the index into platform.Files of the inner loop
    retried,           \* a write of the header under scan has failed
    archive,           \* what tw holds: the entries written, in order
    twShort,           \* the last entry of tw is short of its content
    writeErrors,       \* how many tw.WriteHeader and io.Copy calls have failed
    failed             \* the call on the image or the file that failed ("" none)

vars == << layers, files, pc, err, fileLocation, created, closed,
           processedTargets, foundLen, i, opened, readers, pos, header, t,
           retried, archive, twShort, writeErrors, failed >>

inputs == << layers, files >>
walk == << processedTargets, foundLen, i, opened, readers, pos, header, t,
           retried, archive, twShort, writeErrors >>

\* The state of Extract at its entry, whatever the image and the targets.
Entry ==
    /\ pc = "start"
    /\ err = ""
    /\ fileLocation = <<>>
    /\ created = FALSE
    /\ closed = <<>>
    /\ processedTargets = {}
    /\ foundLen = 0
    /\ i = -1
    /\ opened = <<>>
    /\ readers = {}
    /\ pos = 0
    /\ header = NoHeader
    /\ t = 0
    /\ retried = FALSE
    /\ archive = <<>>
    /\ twShort = FALSE
    /\ writeErrors = 0
    /\ failed = ""

Init ==
    /\ layers \in Images
    /\ files \in TargetLists
    /\ Entry

\* The deferred calls in the order the defer statements register them:
\* file.Close(), gw.Close(), tw.Close().
Deferred == << "file", "gw", "tw" >>

\* Mutant of RunDeferred: the deferred calls run in the order registered.
RunDeferredInOrder(d) == d

\* A return runs the deferred calls last registered first.
RunDeferred(d) == [k \in 1..Len(d) |-> d[Len(d) + 1 - k]]

\* The closes a return runs once the three defers are registered.
DeferredCloses == RunDeferred(Deferred)

\* ------------------------------------------------------------------ steps
\* Mutant of LayersFail: the layers are asked for after os.Create.
LayersFailAfterCreate ==
    /\ pc = "start"
    /\ pc' = "done"
    /\ err' = "retrieving image layers"
    /\ failed' = "Layers"
    /\ created' = TRUE
    /\ closed' = << "file" >>
    /\ UNCHANGED << inputs, fileLocation, walk >>

\* img.Layers() fails: return nil, err before anything is created.
LayersFail ==
    /\ pc = "start"
    /\ pc' = "done"
    /\ err' = "retrieving image layers"
    /\ failed' = "Layers"
    /\ UNCHANGED << inputs, fileLocation, created, closed, walk >>

\* os.Create fails: return nil, err.
CreateFail ==
    /\ pc = "start"
    /\ pc' = "done"
    /\ err' = "create"
    /\ failed' = "Create"
    /\ UNCHANGED << inputs, fileLocation, created, closed, walk >>

\* Layers and the three writers are set up; the loop starts at the top layer.
Begin ==
    /\ pc = "start"
    /\ created' = TRUE
    /\ processedTargets' = {}
    /\ foundLen' = 0
    /\ i' = Len(layers) - 1
    /\ pc' = "loop"
    /\ UNCHANGED << inputs, err, failed, fileLocation, closed, opened, readers, pos,
                    header, t, retried, archive, twShort, writeErrors >>

\* The head of the outer loop: i < 0, or everything is found: leave the loop.
LoopExit ==
    /\ pc = "loop"
    /\ i < 0 \/ foundLen = Len(files)
    /\ pc' = "report"
    /\ UNCHANGED << inputs, err, failed, fileLocation, created, closed, walk >>

\* Mutant of OpenLayer: the layer is opened without the found-count check.
OpenLayerUnchecked ==
    /\ pc = "loop"
    /\ i >= 0
    /\ opened' = Append(opened, i)
    /\ readers' = readers \cup {i}
    /\ pos' = 0
    /\ pc' = "next"
    /\ UNCHANGED << inputs, err, failed, fileLocation, created, closed,
                    processedTargets, foundLen, i, header, t, retried,
                    archive, twShort, writeErrors >>

\* layer.Uncompressed() succeeds; a tar reader is put on the stream.
OpenLayer ==
    /\ pc = "loop"
    /\ i >= 0
    /\ foundLen # Len(files)
    /\ opened' = Append(opened, i)
    /\ readers' = readers \cup {i}
    /\ pos' = 0
    /\ pc' = "next"
    /\ UNCHANGED << inputs, err, failed, fileLocation, created, closed,
                    processedTargets, foundLen, i, header, t, retried,
                    archive, twShort, writeErrors >>

\* Mutant of OpenLayerFail: a layer that does not open is passed over.
OpenLayerFailSkip ==
    /\ pc = "loop"
    /\ i >= 0
    /\ foundLen # Len(files)
    /\ opened' = Append(opened, i)
    /\ failed' = "Uncompressed"
    /\ i' = i - 1
    /\ UNCHANGED << inputs, pc, err, fileLocation, created, closed,
                    processedTargets, foundLen, readers, pos, header, t,
                    retried, archive, twShort, writeErrors >>

\* layer.Uncompressed() fails: return nil, err; the deferred closes run.
OpenLayerFail ==
    /\ pc = "loop"
    /\ i >= 0
    /\ foundLen # Len(files)
    /\ opened' = Append(opened, i)
    /\ err' = "reading layer contents"
    /\ failed' = "Uncompressed"
    /\ fileLocation' = <<>>
    /\ closed' = DeferredCloses
    /\ pc' = "done"
    /\ UNCHANGED << inputs, created, processedTargets, foundLen, i, readers,
                    pos, header, t, retried, archive, twShort, writeErrors >>

\* Mutant of EndLayer: the loop index is not decremented.
EndLayerStay ==
    /\ readers' = readers \ {i}
    /\ i' = i
    /\ pc' = "loop"

\* The tail of an outer iteration: layerReader.Close(), i--.
EndLayer ==
    /\ readers' = readers \ {i}
    /\ i' = i - 1
    /\ pc' = "loop"

\* tarReader.Next() returns io.EOF: break, close the stream, next layer.
TarEOF ==
    /\ pc = "next"
    /\ pos = Len(layers[i + 1])
    /\ EndLayer
    /\ UNCHANGED << inputs, err, failed, fileLocation, created, closed,
                    processedTargets, foundLen, opened, pos, header, t,
                    retried, archive, twShort, writeErrors >>

\* Mutant of TarFail: the return on a decode error leaves the stream open.
TarFailNoClose ==
    /\ pc = "next"
    /\ err' = "reading tar"
    /\ failed' = "Next"
    /\ fileLocation' = <<>>
    /\ closed' = DeferredCloses
    /\ pc' = "done"
    /\ UNCHANGED << inputs, created, processedTargets, foundLen, i, opened,
                    readers, pos, header, t, retried, archive, twShort,
                    writeErrors >>

\* tarReader.Next() fails: close the stream, return nil, err.
TarFail ==
    /\ pc = "next"
    /\ readers' = readers \ {i}
    /\ err' = "reading tar"
    /\ failed' = "Next"
    /\ fileLocation' = <<>>
    /\ closed' = DeferredCloses
    /\ pc' = "done"
    /\ UNCHANGED << inputs, created, processedTargets, foundLen, i, opened,
                    pos, header, t, retried, archive, twShort, writeErrors >>

\* header.Name == strings.TrimPrefix(target.From, "/")
Matches(h, target) == h.Name = TrimPrefix(target.From)

\* The inner loop from index from on: the index of the first target that
\* matches h, or Len(files) + 1 when the loop runs off the end of the list.
NextMatch(h, from) ==
    LET hits == { k \in from..Len(files) : Matches(h, files[k]) }
    IN  IF hits = {} THEN Len(files) + 1
        ELSE CHOOSE k \in hits : \A l \in hits : k <= l

\* Mutant of AfterScan: the layer is read on after everything is found.
AfterScanNoBreak(fl) ==
    /\ pc' = "next"
    /\ UNCHANGED << i, readers >>
    /\ t' = 0
    /\ retried' = FALSE

\* After the inner loop (ended or broken out of) with found-count fl: break
\* out of the layer when everything is found, else read the next header.
AfterScan(fl) ==
    /\ IF fl = Len(files)
       THEN EndLayer
       ELSE pc' = "next" /\ UNCHANGED << i, readers >>
    /\ t' = 0
    /\ retried' = FALSE

\* The inner loop goes on from index from: to the next matching target, where
\* the next write is tried (again tells whether one has failed for this
\* header), or off the end of the list.
ScanFrom(h, from, fl, again) ==
    IF NextMatch(h, from) <= Len(files)
    THEN /\ pc' = "scan"
         /\ t' = NextMatch(h, from)
         /\ retried' = again
         /\ UNCHANGED << i, readers >>
    ELSE AfterScan(fl)

\* Mutant of SkipEntry: the size of the entry is not looked at.
SkipEntryDirOnly(orig) == orig.Typeflag = TypeDir

\* A directory and an empty file are skipped.
SkipEntry(orig) == orig.Typeflag = TypeDir \/ orig.Size = 0

\* An empty name is skipped.
EmptyName(h) == Len(h.Name) = 0

\* A name that is a key of processedTargets is skipped.
Processed(h) == h.Name \in processedTargets

\* tarReader.Next() returns a header: skip a directory and an empty file,
\* clean the name, skip an empty name and a processed one, else run the inner
\* loop up to the first target that matches.
TarNext ==
    /\ pc = "next"
    /\ pos < Len(layers[i + 1])
    /\ pos' = pos + 1
    /\ LET orig == layers[i + 1][pos + 1]
           h == [orig EXCEPT !.Name = Clean(orig.Name)]
       IN  IF SkipEntry(orig)
           THEN /\ header' = orig
                /\ UNCHANGED << pc, i, readers, t, retried >>
           ELSE /\ header' = h
                /\ IF EmptyName(h) \/ Processed(h)
                   THEN UNCHANGED << pc, i, readers, t, retried >>
                   ELSE ScanFrom(h, 1, foundLen, FALSE)
    /\ UNCHANGED << inputs, err, failed, fileLocation, created, closed,
                    processedTargets, foundLen, opened, archive, twShort,
                    writeErrors >>

\* What tw holds of an entry: the header, where it was read, and whether its
\* whole content followed.
Written(complete) ==
    [Name |-> header.Name, Typeflag |-> header.Typeflag, Size |-> header.Size,
     layer |-> i, idx |-> pos, complete |-> complete]

\* Mutant of ScanWrite: the entry is put in front of the ones written.
ScanWriteInFront ==
    /\ pc = "scan"
    /\ ~retried
    /\ ~twShort
    /\ processedTargets' = processedTargets \cup {files[t].From}
    /\ archive' = << Written(TRUE) >> \o archive
    /\ foundLen' = foundLen + 1
    /\ AfterScan(foundLen + 1)
    /\ UNCHANGED << inputs, err, failed, fileLocation, created, closed, opened, pos,
                    header, twShort, writeErrors >>

\* Mutant of ScanWrite: the path is recorded under the name of the header.
ScanWriteKeyName ==
    /\ pc = "scan"
    /\ ~retried
    /\ ~twShort
    /\ processedTargets' = processedTargets \cup {header.Name}
    /\ archive' = Append(archive, Written(TRUE))
    /\ foundLen' = foundLen + 1
    /\ AfterScan(foundLen + 1)
    /\ UNCHANGED << inputs, err, failed, fileLocation, created, closed, opened, pos,
                    header, twShort, writeErrors >>

\* The target at t matches and both writes succeed: found, break.
ScanWrite ==
    /\ pc = "scan"
    /\ ~retried
    /\ ~twShort
    /\ processedTargets' = processedTargets \cup {files[t].From}
    /\ archive' = Append(archive, Written(TRUE))
    /\ foundLen' = foundLen + 1
    /\ AfterScan(foundLen + 1)
    /\ UNCHANGED << inputs, err, failed, fileLocation, created, closed, opened, pos,
                    header, twShort, writeErrors >>

\* Mutant of ScanHeaderFail: a header that cannot be written ends Extract
\* with an error.
ScanHeaderFailAbort ==
    /\ pc = "scan"
    /\ processedTargets' = processedTargets \cup {files[t].From}
    /\ writeErrors' = writeErrors + 1
    /\ readers' = readers \ {i}
    /\ err' = "writing header"
    /\ fileLocation' = <<>>
    /\ closed' = DeferredCloses
    /\ pc' = "done"
    /\ UNCHANGED << inputs, failed, created, foundLen, i, opened, pos, header,
                    t, retried, archive, twShort >>

\* The target at t matches and tw.WriteHeader fails: continue with the next
\* target.  archive/tar makes a second WriteHeader of the same header fail as
\* the first did, and refuses every header that follows a short entry.
ScanHeaderFail ==
    /\ pc = "scan"
    /\ processedTargets' = processedTargets \cup {files[t].From}
    /\ writeErrors' = writeErrors + 1
    /\ ScanFrom(header, t + 1, foundLen, TRUE)
    /\ UNCHANGED << inputs, err, failed, fileLocation, created, closed, foundLen,
                    opened, pos, header, archive, twShort >>

\* The target at t matches, the header is written and io.Copy fails: the
\* entry stays short in the archive; continue with the next target.
ScanCopyFail ==
    /\ pc = "scan"
    /\ ~retried
    /\ ~twShort
    /\ processedTargets' = processedTargets \cup {files[t].From}
    /\ archive' = Append(archive, Written(FALSE))
    /\ twShort' = TRUE
    /\ writeErrors' = writeErrors + 1
    /\ ScanFrom(header, t + 1, foundLen, TRUE)
    /\ UNCHANGED << inputs, err, failed, fileLocation, created, closed, foundLen,
                    opened, pos, header >>

\* Mutant of Found: the targets are reported last first.
RECURSIVE FoundLastFirst(_, _)
FoundLastFirst(fs, done) ==
    IF fs = <<>> THEN <<>>
    ELSE FoundLastFirst(Tail(fs), done)
         \o (IF Head(fs).From \in done THEN <<Head(fs)>> ELSE <<>>)

\* The targets whose From is in the set done, in the order of fs.
RECURSIVE Found(_, _)
Found(fs, done) ==
    IF fs = <<>> THEN <<>>
    ELSE IF Head(fs).From \in done
         THEN <<Head(fs)>> \o Found(Tail(fs), done)
         ELSE Found(Tail(fs), done)

\* After the loop: build fileLocation, return it; the deferred closes run.
Report ==
    /\ pc = "report"
    /\ fileLocation' = Found(files, processedTargets)
    /\ closed' = DeferredCloses
    /\ pc' = "done"
    /\ UNCHANGED << inputs, err, failed, created, walk >>

Next ==
    \/ LayersFail
    \/ CreateFail
    \/ Begin
    \/ LoopExit
    \/ OpenLayer
    \/ OpenLayerFail
    \/ TarEOF
    \/ TarFail
    \/ TarNext
    \/ ScanWrite
    \/ ScanHeaderFail
    \/ ScanCopyFail
    \/ Report

Spec == Init /\ [][Next]_vars

\* ------------------------------------------------- one layer, more names
\* One path under the spellings f, ./f and /f, and a second path; all
\* non-empty regular files.
NormNames == { <<"f">>, <<Dot, Sep, "f">>, <<Sep, "f">>, <<"g">> }
NormHeaders == { [Name |-> n, Typeflag |-> TypeReg, Size |-> 1] : n \in NormNames }

\* Targets declared with one separator, with two and with none.
NormFroms == { <<Sep, "f">>, <<Sep, Sep, "f">>, <<"f">>, <<"g">> }

InitNorm ==
    /\ layers \in { <<c>> : c \in SeqsUpTo(NormHeaders, MaxEntries) }
    /\ files \in SeqsUpTo([From : NormFroms], MaxTargets)
    /\ Entry

SpecNorm == InitNorm /\ [][Next]_vars

\* ------------------------------------------------------- a fixed image
\* An image of two layers: etc/, usr/bin/foo (12 bytes) and an empty
\* usr/bin/bar on top of usr/bin/foo (5 bytes) and usr/bin/bar (3 bytes);
\* wanted are /usr/bin/foo, /usr/bin/bar and /usr/bin/missing.
UsrBin == << "u", "s", "r", Sep, "b", "i", "n", Sep >>
Foo == UsrBin \o << "f", "o", "o" >>
Bar == UsrBin \o << "b", "a", "r" >>
Missing == UsrBin \o << "m", "i", "s", "s", "i", "n", "g" >>
EtcDir == << "e", "t", "c", Sep >>

TopLayer ==
    << [Name |-> EtcDir, Typeflag |-> TypeDir, Size |-> 0],
       [Name |-> Foo, Typeflag |-> TypeReg, Size |-> 12],
       [Name |-> Bar, Typeflag |-> TypeReg, Size |-> 0] >>

BottomLayer ==
    << [Name |-> Foo, Typeflag |-> TypeReg, Size |-> 5],
       [Name |-> Bar, Typeflag |-> TypeReg, Size |-> 3] >>

ScenarioFiles ==
    << [From |-> <<Sep>> \o Foo], [From |-> <<Sep>> \o Bar],
       [From |-> <<Sep>> \o Missing] >>

InitScenario ==
    /\ layers = << BottomLayer, TopLayer >>
    /\ files = ScenarioFiles
    /\ Entry

SpecScenario == InitScenario /\ [][Next]_vars

\* ------------------------------------------------------------ vocabulary
\* The layer indices of the image, 0 the bottom one.
LayerIdx == 0..(Len(layers) - 1)
Top == Len(layers) - 1

\* A non-empty entry that is not a directory.
Qualifies(e) == e.Typeflag # TypeDir /\ e.Size > 0

\* The layers that hold such an entry for the normalized path P.
LayersWith(P) ==
    { l \in LayerIdx : \E k \in 1..Len(layers[l + 1]) :
          Qualifies(layers[l + 1][k]) /\ Clean(layers[l + 1][k].Name) = P }

Highest(S) == CHOOSE l \in S : \A m \in S : m <= l

\* The normalized paths of the targets, and those declared with the separator.
TargetPaths == { TrimPrefix(files[k].From) : k \in 1..Len(files) }
RootedTargetPaths ==
    { TrimPrefix(files[k].From) :
          k \in { j \in 1..Len(files) : files[j].From[1] = Sep } }

\* Extract has returned a list, not an error.
Returned == pc = "done" /\ err = ""

\* The entry of the image that the tarReader returned last.
Current == layers[i + 1][pos]

\* ------------------------------------------------------------------ C1
\* C1: when no write fails, every entry of the archive for a target path that
\* has a non-empty non-directory entry in more than one layer comes from the
\* highest of those layers.
OverlayPrecedence ==
    writeErrors = 0 =>
        \A P \in TargetPaths :
            Cardinality(LayersWith(P)) > 1 =>
                \A k \in 1..Len(archive) :
                    archive[k].Name = P => archive[k].layer = Highest(LayersWith(P))

\* ------------------------------------------------------------------ C2
\* C2: the archive never holds two entries for the normalized path of a
\* target declared with a leading separator.
OneEntryPerTarget ==
    \A j, k \in 1..Len(archive) :
        (archive[j].Name = archive[k].Name /\ archive[j].Name \in RootedTargetPaths)
            => j = k

\* ------------------------------------------------------------------ C3
NoDuplicateFroms ==
    \A j, k \in 1..Len(files) : files[j].From = files[k].From => j = k

\* C3: when Extract returns a list, no write failed and no From is declared
\* twice, every target that has a non-empty non-directory entry in some layer
\* is in the list.
EarlyStopMissesNothing ==
    (Returned /\ writeErrors = 0 /\ NoDuplicateFroms) =>
        \A k \in 1..Len(files) :
            LayersWith(TrimPrefix(files[k].From)) # {} =>
                \E r \in 1..Len(fileLocation) : fileLocation[r] = files[k]

\* ------------------------------------------------------------------ C9
\* C9: when Extract returns a list and some target has no non-empty
\* non-directory entry in any layer, every layer was opened, top to bottom,
\* that target is not in the list and every resolved target is.
AllLayers == [k \in 1..Len(layers) |-> Len(layers) - k]

NotFoundIsNoError ==
    \A k \in 1..Len(files) :
        (Returned /\ LayersWith(TrimPrefix(files[k].From)) = {})
        => /\ opened = AllLayers
           /\ \A r \in 1..Len(fileLocation) : fileLocation[r] # files[k]
           /\ \A j \in 1..Len(files) :
                  files[j].From \in processedTargets =>
                      \E r \in 1..Len(fileLocation) : fileLocation[r] = files[j]

\* ------------------------------------------------------------------ C4
\* C4: while found-count equals the number of targets no layer is opened and
\* no header is read; and when the only target was written from the top
\* layer, Extract ends without error having opened the top layer alone.
EarlyTermination ==
    /\ [][foundLen = Len(files) => (opened' = opened /\ pos' = pos)]_vars
    /\ [](( /\ pc = "done"
            /\ Len(files) = 1
            /\ \E k \in 1..Len(archive) :
                   archive[k].complete /\ archive[k].layer = Top )
          => (err = "" /\ opened = <<Top>>))

\* The only target was found in the top layer of an image that has a layer
\* with headers under it, and Extract has returned.
EarlyTerminationWitness ==
    /\ Returned
    /\ Len(files) = 1
    /\ foundLen = 1
    /\ Len(layers) >= 2
    /\ layers[1] # <<>>
    /\ archive[1].layer = Top
    /\ opened = <<Top>>

\* ------------------------------------------------------------------ C5
\* C5: the archive, processedTargets and found-count change only while the
\* header read last is a non-empty non-directory entry; every entry of the
\* archive was read from such an entry; and every path in processedTargets
\* has such an entry among the headers read so far.
ExclusionRules ==
    /\ [][(\/ archive' # archive
           \/ processedTargets' # processedTargets
           \/ foundLen' # foundLen)
          => (i >= 0 /\ pos >= 1 /\ Qualifies(Current))]_vars
    /\ [](\A k \in 1..Len(archive) :
              Qualifies(layers[archive[k].layer + 1][archive[k].idx]))
    /\ [](\A p \in processedTargets :
              \E l \in LayerIdx : \E k \in 1..Len(layers[l + 1]) :
                  /\ Qualifies(layers[l + 1][k])
                  /\ Clean(layers[l + 1][k].Name) = TrimPrefix(p)
                  /\ (l > i \/ (l = i /\ k <= pos)))

\* A target whose path is only an empty file or a directory in the top layer
\* was written from the layer under it.
ExclusionRulesWitness ==
    /\ Len(layers) = 2
    /\ \E k \in 1..Len(layers[2]) :
           ~Qualifies(layers[2][k]) /\ Clean(layers[2][k].Name) = <<"f">>
    /\ LayersWith(<<"f">>) = {0}
    /\ \E k \in 1..Len(archive) :
           archive[k].Name = <<"f">> /\ archive[k].layer = 0 /\ archive[k].complete
    /\ <<Sep, "f">> \in processedTargets

\* ------------------------------------------------------------------ C6
\* The indices of the targets whose From is in processedTargets.
ResolvedIdx == { k \in 1..Len(files) : files[k].From \in processedTargets }

\* C6: the list Extract returns holds exactly the targets whose From is in
\* processedTargets, each at the rank it has among them in platform.Files.
ResultReporting ==
    Returned =>
        /\ Len(fileLocation) = Cardinality(ResolvedIdx)
        /\ \A k \in ResolvedIdx :
               fileLocation[Cardinality({ j \in ResolvedIdx : j <= k })] = files[k]

\* Two targets were found in the order opposite to their declaration, and
\* are returned as declared.
ResultReportingWitness ==
    /\ Returned
    /\ Len(files) = 2
    /\ Len(archive) = 2
    /\ files[1] # files[2]
    /\ archive[1].Name = TrimPrefix(files[2].From)
    /\ archive[2].Name = TrimPrefix(files[1].From)
    /\ fileLocation = files

\* ------------------------------------------------------------------ C7
LayerCallFailed == failed \in {"Uncompressed", "Next"}

\* C7: once Uncompressed() or Next() has failed, Extract has returned an
\* error and no list, and from then on no layer is opened, no header read and
\* nothing written.
FatalLayerErrors ==
    /\ [](LayerCallFailed => (pc = "done" /\ err # "" /\ fileLocation = <<>>))
    /\ [][LayerCallFailed =>
              UNCHANGED << opened, pos, archive, foundLen, processedTargets >>]_vars

\* A layer failed after a target was resolved and written, with a layer
\* still under it.
FatalLayerErrorsWitness ==
    /\ LayerCallFailed
    /\ pc = "done"
    /\ processedTargets # {}
    /\ foundLen >= 1
    /\ fileLocation = <<>>
    /\ i >= 1

\* ------------------------------------------------------------------ C8
\* C8: a step in which a write fails sets no error, leaves found-count, the
\* layer and the reader's position as they are, and goes on with the inner
\* loop or the next header; and found-count does not grow for a header one of
\* whose writes has failed.
WriteFailureNonFatal ==
    /\ [][writeErrors' # writeErrors =>
              /\ err' = ""
              /\ foundLen' = foundLen
              /\ pc' \in {"scan", "next"}
              /\ UNCHANGED << i, pos, readers, opened, fileLocation, closed >>
              /\ (pc' = "scan" => (retried' /\ header' = header))]_vars
    /\ [][(pc = "scan" /\ retried) => foundLen' = foundLen]_vars

\* After a failed write an entry of a lower layer was written in full and
\* Extract returned a list.
WriteFailureNonFatalWitness ==
    /\ Returned
    /\ writeErrors >= 1
    /\ Len(opened) = 2
    /\ \E k \in 1..Len(archive) : archive[k].complete /\ archive[k].layer = 0
    /\ fileLocation # <<>>

\* ------------------------------------------------------------------ C10
\* C10: with no targets, once the file is created, no layer is ever opened
\* and nothing is written, and Extract returns the empty list, no error, with
\* the writers closed.
EmptyTargetList ==
    (created /\ Len(files) = 0) =>
        /\ opened = <<>>
        /\ archive = <<>>
        /\ pc = "done" => (err = "" /\ fileLocation = <<>> /\ closed = DeferredCloses)

\* Extract has returned for no targets and an image with headers in its top
\* layer.
EmptyTargetListWitness ==
    /\ pc = "done"
    /\ created
    /\ files = <<>>
    /\ Len(layers) >= 1
    /\ layers[Len(layers)] # <<>>

\* ------------------------------------------------------------------ C11
\* The place of the sink s in closed, 0 when it is not closed.
ClosedAt(s) ==
    IF \E k \in 1..Len(closed) : closed[k] = s
    THEN CHOOSE k \in 1..Len(closed) : closed[k] = s
    ELSE 0

\* C11: once the file is created, Extract ends with the tar writer, the gzip
\* writer and the file closed in that order, each once; nothing is closed
\* before Extract ends, and the archive does not change once a sink is
\* closed.
SinkFinalisation ==
    /\ []((pc = "done" /\ created) =>
              /\ Len(closed) = 3
              /\ ClosedAt("tw") = 1
              /\ ClosedAt("gw") = 2
              /\ ClosedAt("file") = 3)
    /\ [](pc # "done" => closed = <<>>)
    /\ [][closed # <<>> => archive' = archive]_vars

\* Extract ended on a tar decode error with an entry in the archive and the
\* sinks closed.
SinkFinalisationWitness ==
    /\ pc = "done"
    /\ failed = "Next"
    /\ archive # <<>>
    /\ closed = << "tw", "gw", "file" >>

\* ------------------------------------------------------------------ C12
\* C12: at most one layer stream is open; none is open at the head of the
\* layer loop, after it, or when Extract has ended; while a layer is read
\* the open stream is that layer's; and a layer is opened only while no
\* stream is open.
StreamLifecycle ==
    /\ [](Cardinality(readers) <= 1)
    /\ [](pc \in {"start", "loop", "report", "done"} => readers = {})
    /\ [](pc \in {"next", "scan"} => readers = {i})
    /\ [][opened' # opened => readers = {}]_vars

\* Extract ended on a decode error in the second layer it opened, and no
\* stream is open.
StreamLifecycleWitness ==
    /\ pc = "done"
    /\ failed = "Next"
    /\ Len(opened) = 2
    /\ pos >= 1
    /\ readers = {}

\* ------------------------------------------------------------------ C13
\* An entry of the archive named n, of size bytes, written in full from
\* layer l.
Holds(n, size, l) ==
    \E k \in 1..Len(archive) :
        /\ archive[k].Name = n
        /\ archive[k].Size = size
        /\ archive[k].layer = l
        /\ archive[k].complete

\* C13: when Extract returns a list for the fixed image and no write has
\* failed, the list is /usr/bin/foo, /usr/bin/bar, and the archive holds the
\* top layer's 12-byte usr/bin/foo and the bottom layer's 3-byte usr/bin/bar
\* and not the bottom layer's 5-byte usr/bin/foo.
EndToEndScenario ==
    (Returned /\ writeErrors = 0) =>
        /\ fileLocation = << ScenarioFiles[1], ScenarioFiles[2] >>
        /\ Holds(Foo, 12, 1)
        /\ Holds(Bar, 3, 0)
        /\ ~Holds(Foo, 5, 0)

\* ------------------------------------------------------------------ C14
\* The name with a leading "./" collapsed.
Collapsed(name) ==
    IF Len(name) >= 2 /\ name[1] = Dot /\ name[2] = Sep
    THEN SubSeq(name, 3, Len(name))
    ELSE name

\* The From path without its first character when that is the separator.
StripOne(from) == IF from # <<>> /\ Head(from) = Sep THEN Tail(from) ELSE from

\* The targets the entry e is equal to after normalization.
EqualTargets(e) ==
    { k \in 1..Len(files) : Collapsed(e.Name) = StripOne(files[k].From) }

\* C14: a write is tried for a target only when the name of the entry read
\* last, its leading ./ collapsed, equals the target's From less one leading
\* separator; a non-empty non-directory entry that is read and is no key of
\* processedTargets goes to the first target it equals in this way; only the
\* From of the target under scan is added to processedTargets; and every
\* target returned is a declared one that some header read equals.
PathNormalization ==
    /\ [](pc = "scan" => t \in EqualTargets(Current))
    /\ [][(pc = "next" /\ pos' = pos + 1) =>
              LET e == layers[i + 1][pos + 1]
              IN  (/\ Qualifies(e)
                   /\ Collapsed(e.Name) \notin processedTargets
                   /\ EqualTargets(e) # {})
                  => /\ pc' = "scan"
                     /\ t' \in EqualTargets(e)
                     /\ \A k \in EqualTargets(e) : t' <= k]_vars
    /\ [][(pc = "next" /\ pos' = pos + 1 /\ pc' = "scan") =>
              EqualTargets(layers[i + 1][pos + 1]) # {}]_vars
    /\ [][\A p \in processedTargets' \ processedTargets :
              pc = "scan" /\ p = files[t].From]_vars
    /\ [](Returned =>
              \A r \in 1..Len(fileLocation) :
                  \E k \in 1..Len(files) :
                      /\ fileLocation[r] = files[k]
                      /\ \E l \in LayerIdx : \E n \in 1..Len(layers[l + 1]) :
                             k \in EqualTargets(layers[l + 1][n]))

\* The target /f was written from an entry spelled f and from one spelled
\* ./f, and is returned as /f.
PathNormalizationWitness ==
    /\ Returned
    /\ \E k \in 1..Len(archive) : layers[1][archive[k].idx].Name = <<"f">>
    /\ \E k \in 1..Len(archive) : layers[1][archive[k].idx].Name = <<Dot, Sep, "f">>
    /\ processedTargets = { <<Sep, "f">> }
    /\ \E r \in 1..Len(fileLocation) : fileLocation[r].From = <<Sep, "f">>

\* ------------------------------------------------------------------ C15
\* The entries of the archive written in full.
CompleteEntries == { k \in 1..Len(archive) : archive[k].complete }

\* C15: found-count is the number of entries written in full, is at most the
\* number of targets, and is at most the number of paths in
\* processedTargets.
FoundCountInvariant ==
    /\ foundLen = Cardinality(CompleteEntries)
    /\ foundLen <= Len(files)
    /\ foundLen <= Cardinality(processedTargets)

\* ------------------------------------------------------------------ C16
\* C16: every target of the returned list has an entry of its normalized
\* path written in full in the archive.
ReturnedTargetsWritten ==
    Returned =>
        \A k \in 1..Len(fileLocation) :
            \E e \in CompleteEntries :
                archive[e].Name = TrimPrefix(fileLocation[k].From)

\* ------------------------------------------------------------------ C17
\* The most steps one header can take: it is read, then one write is tried
\* for each target.
EntrySteps == Len(files) + 1

\* The most steps the layers 0..l can take: each is opened, read header by
\* header and left.
RECURSIVE StepsBelow(_)
StepsBelow(l) ==
    IF l < 0 THEN 0
    ELSE StepsBelow(l - 1) + Len(layers[l + 1]) * EntrySteps + 2

\* A bound on the steps Extract has left.
Rank ==
    CASE pc = "done"   -> 0
      [] pc = "report" -> 1
      [] pc = "loop"   -> StepsBelow(i) + 2
      [] pc = "next"   -> StepsBelow(i - 1) + 3
                          + (Len(layers[i + 1]) - pos) * EntrySteps
      [] pc = "scan"   -> StepsBelow(i - 1) + 3
                          + (Len(layers[i + 1]) - pos) * EntrySteps
                          + (Len(files) - t + 1)
      [] pc = "start"  -> StepsBelow(Top) + 3

\* C17: the layers are opened top first, each index one below the one before
\* and none twice, so at most Len(layers) of them; the headers of a layer are
\* read one after the other from the first; every step brings the end of
\* Extract nearer and Extract stops only when it has returned.
WalkOrderAndTermination ==
    /\ [](\A k \in 1..Len(opened) : opened[k] = Top - (k - 1) /\ opened[k] >= 0)
    /\ [](Len(opened) <= Len(layers))
    /\ [][opened' # opened /\ pc' # "done" => pos' = 0 /\ pc' = "next"]_vars
    /\ [][opened' = opened /\ pos' # pos => pos' = pos + 1]_vars
    /\ [](Rank >= 0)
    /\ [][Rank' < Rank]_vars
    /\ [](pc = "done" \/ ENABLED Next)
    /\ [](pc = "done" => err # "" \/ fileLocation = Found(files, processedTargets))

\* Both layers of an image were read to their ends and Extract has returned.
WalkOrderAndTerminationWitness ==
    /\ Returned
    /\ opened = << 1, 0 >>
    /\ Len(layers[1]) > 0
    /\ Len(layers[2]) > 0
    /\ pos = Len(layers[1])

\* ------------------------------------------------------------------ C18
\* Entry a was read before entry b: in a higher layer, or earlier in the
\* same one.
ReadBefore(a, b) ==
    \/ a.layer > b.layer
    \/ a.layer = b.layer /\ a.idx < b.idx

\* C18: the archive only grows at its end, and its entries stand in the
\* order they were read in: a higher layer's before a lower layer's, and
\* those of one layer in the order of its tar stream, whatever the order of
\* the targets.
DiscoveryOrder ==
    /\ [][archive' # archive =>
              \E e \in { Written(TRUE), Written(FALSE) } :
                  archive' = Append(archive, e)]_vars
    /\ [](\A j, k \in 1..Len(archive) :
              j < k => ReadBefore(archive[j], archive[k]))

\* The archive holds an entry of the top layer before one of the bottom
\* layer, and two entries of one layer, and the targets are listed in the
\* other order than the entries were read in.
DiscoveryOrderWitness ==
    /\ Returned
    /\ \E j, k \in 1..Len(archive) :
           /\ j < k
           /\ archive[j].layer > archive[k].layer
           /\ archive[j].Name = TrimPrefix(files[2].From)
           /\ archive[k].Name = TrimPrefix(files[1].From)
           /\ Len(files) = 2

\* ------------------------------------------------------------------ C19
\* The From paths of the declared targets.
DeclaredFroms == { files[k].From : k \in 1..Len(files) }

\* C19: processedTargets never loses a path, holds only From paths of
\* declared targets, and gains a path only while a header is under scan that
\* is neither a directory nor empty and whose cleaned name is the path
\* without its leading separator.
ResolvedSetMonotone ==
    /\ [][processedTargets \subseteq processedTargets']_vars
    /\ [](processedTargets \subseteq DeclaredFroms)
    /\ [][\A p \in processedTargets' \ processedTargets :
              /\ pc = "scan"
              /\ Qualifies(Current)
              /\ header.Name = Clean(Current.Name)
              /\ header.Name = TrimPrefix(p)]_vars

\* A path was added by a header of the bottom layer after another had been
\* added by a header of the top layer.
ResolvedSetMonotoneWitness ==
    /\ Cardinality(processedTargets) = 2
    /\ Len(archive) = 2
    /\ archive[1].layer = 1
    /\ archive[2].layer = 0

\* ------------------------------------------------------------------ C20
\* C20: when img.Layers() has failed, Extract has returned an error and no
\* list, the destination file was not created, no layer was opened, nothing
\* was written and no sink was there to close.
LayersFailureLeavesNothing ==
    failed = "Layers" =>
        /\ pc = "done"
        /\ err # ""
        /\ fileLocation = <<>>
        /\ ~created
        /\ opened = <<>>
        /\ readers = {}
        /\ archive = <<>>
        /\ closed = <<>>
        /\ processedTargets = {}

\* img.Layers() has failed for an image with layers and a list with targets.
LayersFailureLeavesNothingWitness ==
    /\ failed = "Layers"
    /\ pc = "done"
    /\ Len(layers) > 0
    /\ Len(files) > 0
====
